---- MODULE Spec2Model ----
(***************************************************************************)
(* Model of the carcasonne-rust game driver (carcasonne-app/src/game.rs),  *)
(* the presentation state machine (carcasonne-core/src/state/game_state)   *)
(* the game context (carcasonne-core/src/context.rs)                       *)
(* and the text renderer (carcasonne-text-ui/src/renderable/node.rs and    *)
(* frame.rs).                                                              *)
(*                                                                         *)
(* The specifications share the variables:                                 *)
(*   Spec        the driver loop Game::run from Game::new to loop end;     *)
(*   LiveSpec    the same loop under the scheduling of its thread;         *)
(*   CtxSpec     a GameContext on which select_random_tile is called       *)
(*               repeatedly, as the tests of context.rs do;                *)
(*   RenderSpec  a Node tree that is measured and converted to a Frame;    *)
(*   FrameSpec   a new Frame whose cells are set one call at a time.       *)
(***************************************************************************)
EXTENDS Integers, Sequences, FiniteSets, TLC

(***************************************************************************)
(* Bounds.                                                                 *)
(***************************************************************************)
\* Largest quantity of one tile kind the catalog of a modelled session holds.
MaxQty == 1
\* Largest number of events the input source delivers in a modelled run.
MaxEvents == 4
\* Largest pool a stand-alone GameContext is seeded with.
MaxPool == 3
\* Largest number of select_random_tile calls made on a stand-alone context.
MaxCalls == 4
\* Largest number of nodes of a modelled Node tree.
MaxNodes == 3
\* Largest number of size() calls made on a tree before it is converted.
MaxMeasures == 2
\* Largest width and height of a stand-alone Frame, and largest coordinate
\* of a point written to it.
MaxDim == 2
\* Largest number of set_cell calls made on a stand-alone Frame.
MaxWrites == 2

(***************************************************************************)
(* Values.                                                                 *)
(***************************************************************************)
\* enum Action
Action ==
    {"StartGame", "StopGame", "Bottom", "Top", "Left", "Right", "Validate", "Quit", "None"}

\* enum InputEvent
InputEvent == {"Up", "Down", "Left", "Right", "Enter", "Quit"}

\* The tile kinds of the modelled catalog: the first abbey and the first road
\* tile of build_base_game.  A Tile value is modelled by its kind.
TileKinds == <<"a_abbey", "u_road">>

Tiles == {TileKinds[i] : i \in 1..Len(TileKinds)}

\* Option<Tile>::None
NoTile == "NoTile"

\* The absent sub-state and the empty context of a state that has neither.
NoSub == [kind |-> "None", tile |-> NoTile]

NoContext == [available_tiles |-> <<>>]

\* Option<Box<dyn State>>::None : the vacated state slot.
NoState == [kind |-> "None", current_state |-> NoSub, context |-> NoContext]

\* MenuState {}
MenuState == [kind |-> "MenuState", current_state |-> NoSub, context |-> NoContext]

\* StopState {}
StopState == [kind |-> "StopState", current_state |-> NoSub, context |-> NoContext]

\* SelectTileState {}
SelectTileState == [kind |-> "SelectTileState", tile |-> NoTile]

\* PlaceTileState::new(tile)
PlaceTileState_new(tile) == [kind |-> "PlaceTileState", tile |-> tile]

\* What the logs keep of a state: the phase, the sub-state and the held tile.
View(st) ==
    [kind |-> st.kind, sub |-> st.current_state.kind, tile |-> st.current_state.tile]

(***************************************************************************)
(* Layout values: carcasonne-core/src/layout and the cells of frame.rs.    *)
(* A char is modelled by its Unicode scalar value, a &str by the sequence  *)
(* of its chars.                                                           *)
(***************************************************************************)
\* Size::new
Size_new(width, height) == [width |-> width, height |-> height]

\* Addition of sizes that leaves the height of the first as it is.
Size_add_width_only(self, other) == Size_new(self.width + other.width, self.height)

\* impl Add for Size
Size_add(self, other) ==
    Size_new(self.width + other.width, self.height + other.height)

\* Point::new
Point_new(x, y) == [x |-> x, y |-> y]

\* Point::zero
Point_zero == Point_new(0, 0)

\* impl Add<Point> for Point
Point_add(self, other) == Point_new(self.x + other.x, self.y + other.y)

\* enum Node : one record shape for the seven variants.
Node_None ==
    [kind |-> "None", char |-> 0, str |-> <<>>, tile |-> NoTile, elems |-> <<>>]

Node_Char(c) == [Node_None EXCEPT !.kind = "Char", !.char = c]

Node_Text(str) == [Node_None EXCEPT !.kind = "Text", !.str = str]

Node_Tile(tile) == [Node_None EXCEPT !.kind = "Tile", !.tile = tile]

Node_VerticalContainer(elems) ==
    [Node_None EXCEPT !.kind = "VerticalContainer", !.elems = elems]

Node_HorizontalContainer(elems) ==
    [Node_None EXCEPT !.kind = "HorizontalContainer", !.elems = elems]

Node_Framed(elem) == [Node_None EXCEPT !.kind = "Framed", !.elems = <<elem>>]

\* impl From<CharDrawing> for char
CharDrawing_into_char(value) ==
    CASE value = "None" -> 32                  \* ' '
      [] value = "CornerTopLeft" -> 9484       \* U+250C
      [] value = "CornerTopRight" -> 9488      \* U+2510
      [] value = "CornerBottomLeft" -> 9492    \* U+2514
      [] value = "CornerBottomRight" -> 9496   \* U+2518
      [] value = "Horizontal" -> 9472          \* U+2500
      [] value = "Vertical" -> 9474            \* U+2502

\* struct Cell
Cell(symbol, background_color, foreground_color) ==
    [symbol |-> symbol, background_color |-> background_color,
     foreground_color |-> foreground_color]

\* Frame::new.  cells[y][x]; panicked records that a write to this frame
\* failed its assertion and unwound the thread; writes lists the points of
\* the cells set so far, in the order of the set_cell calls.
Frame_new(size) ==
    [size |-> size,
     cells |-> [y \in 0..(size.height - 1) |->
                  [x \in 0..(size.width - 1) |->
                     Cell(CharDrawing_into_char("None"), "Black", "White")]],
     panicked |-> FALSE,
     writes |-> <<>>]

VARIABLES
    catalog,        \* the quantities the tile-set provider adds per tile kind
    events,         \* the events read from the input source so far, in order
    game_state,     \* Game.game_state : the state slot (NoState when vacated)
    current_state,  \* the local current_state of Game::run (NoState when unset)
    action,         \* the local action of Game::run
    pc,             \* position of Game::run
    rendered,       \* the views of the states rendered so far, in order
    updates,        \* the update calls made so far: state, action, result
    calls,          \* the calls of build_base_game and select_random_tile so far
    seeded,         \* CtxSpec: the pool the stand-alone context was created with
    context,        \* CtxSpec: the stand-alone GameContext
    selected,       \* CtxSpec: what select_random_tile returned so far, in order
    node,           \* RenderSpec: the Node tree
    rpc,            \* RenderSpec: "node" until the tree is converted, then "frame"
    measured,       \* RenderSpec: what size() returned for the tree so far, in order
    frame,          \* RenderSpec, FrameSpec: the Frame
    cell_calls      \* FrameSpec: the set_cell calls made so far: point, cell

vars ==
    <<catalog, events, game_state, current_state, action, pc, rendered, updates,
      calls, seeded, context, selected, node, rpc, measured, frame, cell_calls>>

driverVars ==
    <<catalog, events, game_state, current_state, action, pc, rendered, updates, calls>>

ctxVars == <<seeded, context, selected>>

renderVars == <<node, rpc, measured, frame, cell_calls>>

\* No tree, no frame: the renderer's part of the state where it does not run.
RenderIdle ==
    /\ node = Node_None
    /\ rpc = "node"
    /\ measured = <<>>
    /\ frame = Frame_new(Size_new(0, 0))
    /\ cell_calls = <<>>

\* No session: the driver's and the context's part where they do not run.
DriverIdle ==
    /\ catalog = [i \in 1..Len(TileKinds) |-> 0]
    /\ events = <<>>
    /\ game_state = MenuState
    /\ current_state = NoState
    /\ action = "None"
    /\ pc = "start"
    /\ rendered = <<>>
    /\ updates = <<>>
    /\ calls = <<>>

CtxIdle ==
    /\ seeded = <<>>
    /\ context = NoContext
    /\ selected = <<>>

(***************************************************************************)
(* Tile-set provider.                                                      *)
(***************************************************************************)
\* GameBuilder::add_tiles : append quantity copies of tile.
add_tiles(tiles, tile, quantity) == tiles \o [i \in 1..quantity |-> tile]

\* GameTilesFactory::build_base_game : GameBuilder::new(), one add_tiles per
\* catalog entry in order, build().  cat[i] is the quantity of TileKinds[i].
RECURSIVE add_all_tiles(_, _)
add_all_tiles(cat, n) ==
    IF n = 0 THEN <<>>
    ELSE add_tiles(add_all_tiles(cat, n - 1), TileKinds[n], cat[n])

build_base_game(cat) == [available_tiles |-> add_all_tiles(cat, Len(TileKinds))]

(***************************************************************************)
(* Game context.                                                           *)
(***************************************************************************)
\* A shuffle that redraws every position from the elements, with replacement.
shuffle_resample(v) ==
    [1..Len(v) -> {v[i] : i \in DOMAIN v}]

\* slice::shuffle : every rearrangement of the vector is a possible outcome,
\* that is every vector of the same length holding each element as often.
shuffle(v) ==
    LET elems == {v[i] : i \in DOMAIN v}
    IN  {s \in [1..Len(v) -> elems] :
            \A x \in elems :
                Cardinality({i \in DOMAIN s : s[i] = x})
                    = Cardinality({i \in DOMAIN v : v[i] = x})}

\* pop that returns the last element but leaves it in the vector.
pop_keep(v) ==
    IF Len(v) = 0
    THEN [tile |-> NoTile, available_tiles |-> v]
    ELSE [tile |-> v[Len(v)], available_tiles |-> v]

\* Vec::pop : remove and return the last element, None on an empty vector.
pop(v) ==
    IF Len(v) = 0
    THEN [tile |-> NoTile, available_tiles |-> v]
    ELSE [tile |-> v[Len(v)], available_tiles |-> SubSeq(v, 1, Len(v) - 1)]

\* select_random_tile that returns none one tile early, stranding a tile.
select_random_tile_early_none(ctx) ==
    IF Len(ctx.available_tiles) = 1
    THEN {[tile |-> NoTile, available_tiles |-> ctx.available_tiles]}
    ELSE {pop(s) : s \in shuffle(ctx.available_tiles)}

\* GameContext::select_random_tile : the set of outcomes, each the returned
\* Option<Tile> and the pool left behind.
select_random_tile(ctx) == {pop(s) : s \in shuffle(ctx.available_tiles)}

(***************************************************************************)
(* Playing-phase sub-states.  update_game yields the set of its outcomes:  *)
(* result and state are the PlayingStateResult, context the context it     *)
(* leaves, calls the select_random_tile calls it made.                     *)
(***************************************************************************)
\* PlayingStateResult::Continue(state)
PlayingContinue(state, ctx, made) ==
    [result |-> "Continue", state |-> state, context |-> ctx, calls |-> made]

\* PlayingStateResult::ExitToStop
PlayingExitToStop(ctx, made) ==
    [result |-> "ExitToStop", state |-> NoSub, context |-> ctx, calls |-> made]

\* The record of one select_random_tile call.
SelectCall(o) == [fn |-> "select_random_tile", tile |-> o.tile]

\* The record of one build_base_game call.
BuildCall == [fn |-> "build_base_game", tile |-> NoTile]

\* update_game that goes on to PlaceTileState even when nothing was drawn.
SelectTileState_update_game_always_place(self, act, ctx) ==
    {PlayingContinue(PlaceTileState_new(o.tile),
                     [available_tiles |-> o.available_tiles], <<SelectCall(o)>>)
     : o \in select_random_tile(ctx)}

\* SelectTileState::update_game
SelectTileState_update_game(self, act, ctx) ==
    {IF o.tile # NoTile
        THEN PlayingContinue(PlaceTileState_new(o.tile),
                             [available_tiles |-> o.available_tiles], <<SelectCall(o)>>)
        ELSE PlayingExitToStop([available_tiles |-> o.available_tiles], <<SelectCall(o)>>)
     : o \in select_random_tile(ctx)}

\* SelectTileState::handle_input
SelectTileState_handle_input(self, event) == "None"

\* SelectTileState::need_input
SelectTileState_need_input(self) == FALSE

\* update_game that keeps the tile held until the action is Validate.
PlaceTileState_update_game_waits(self, act, ctx) ==
    {PlayingContinue(IF act = "Validate" THEN SelectTileState ELSE self, ctx, <<>>)}

\* update_game that puts the held tile back into the pool.
PlaceTileState_update_game_returns_tile(self, act, ctx) ==
    {PlayingContinue(SelectTileState,
                     [available_tiles |-> Append(ctx.available_tiles, self.tile)], <<>>)}

\* PlaceTileState::update_game
PlaceTileState_update_game(self, act, ctx) ==
    {PlayingContinue(SelectTileState, ctx, <<>>)}

\* handle_input that interprets no event as Validate.
PlaceTileState_handle_input_ignore(self, event) == "None"

\* PlaceTileState::handle_input
PlaceTileState_handle_input(self, event) ==
    IF event = "Enter" THEN "Validate" ELSE "None"

\* PlaceTileState::need_input
PlaceTileState_need_input(self) == TRUE

\* dyn PlayingState dispatch
PlayingState_update_game(self, act, ctx) ==
    IF self.kind = "SelectTileState"
    THEN SelectTileState_update_game(self, act, ctx)
    ELSE PlaceTileState_update_game(self, act, ctx)

PlayingState_handle_input(self, event) ==
    IF self.kind = "SelectTileState"
    THEN SelectTileState_handle_input(self, event)
    ELSE PlaceTileState_handle_input(self, event)

PlayingState_need_input(self) ==
    IF self.kind = "SelectTileState"
    THEN SelectTileState_need_input(self)
    ELSE PlaceTileState_need_input(self)

(***************************************************************************)
(* Top-level states.  update yields the set of its outcomes: result and    *)
(* state are the StateResult, self the receiver as the call leaves it,     *)
(* calls the provider and context calls it made.                           *)
(***************************************************************************)
\* StateResult::Continue(state)
Continue(state, self, made) ==
    [result |-> "Continue", state |-> state, self |-> self, calls |-> made]

\* StateResult::Skip
Skip(self, made) ==
    [result |-> "Skip", state |-> NoState, self |-> self, calls |-> made]

\* StateResult::ExitToStop
ExitToStop(self, made) ==
    [result |-> "ExitToStop", state |-> NoState, self |-> self, calls |-> made]

\* new that drops the provider's tiles.
PlayingPhase_new_empty(default_state, tiles) ==
    [kind |-> "PlayingPhase", current_state |-> default_state, context |-> NoContext]

\* PlayingPhase::new
PlayingPhase_new(default_state, tiles) ==
    [kind |-> "PlayingPhase",
     current_state |-> default_state,
     context |-> [available_tiles |-> tiles.available_tiles]]

\* update that leaves Menu for Stop.
MenuState_update_to_stop(self, act) ==
    IF act = "StartGame"
    THEN {Continue(StopState, self, <<>>)}
    ELSE {Skip(self, <<>>)}

\* update that calls the provider whatever the action.
MenuState_update_builds_on_skip(self, act) ==
    IF act = "StartGame"
    THEN {Continue(PlayingPhase_new(SelectTileState, build_base_game(catalog)),
                   self, <<BuildCall>>)}
    ELSE {Skip(self, <<BuildCall>>)}

\* MenuState::update
MenuState_update(self, act) ==
    IF act = "StartGame"
    THEN {Continue(PlayingPhase_new(SelectTileState, build_base_game(catalog)),
                   self, <<BuildCall>>)}
    ELSE {Skip(self, <<>>)}

\* MenuState::handle_input
MenuState_handle_input(self, event) ==
    CASE event = "Quit" -> "Quit"
      [] event = "Enter" -> "StartGame"
      [] OTHER -> "None"

\* MenuState::need_input
MenuState_need_input(self) == TRUE

\* update that passes the sub-state's exit on as its own.
PlayingPhase_update_exits(self, act) ==
    {IF o.result = "Continue"
        THEN Skip([self EXCEPT !.current_state = o.state, !.context = o.context], o.calls)
        ELSE ExitToStop([self EXCEPT !.context = o.context], o.calls)
     : o \in PlayingState_update_game(self.current_state, act, self.context)}

\* update that keeps the phase alive when the sub-state signals exit.
PlayingPhase_update_never_stops(self, act) ==
    {Skip([self EXCEPT !.current_state = IF o.result = "Continue" THEN o.state
                                         ELSE self.current_state,
                       !.context = o.context], o.calls)
     : o \in PlayingState_update_game(self.current_state, act, self.context)}

\* PlayingPhase::update
PlayingPhase_update(self, act) ==
    {IF o.result = "Continue"
        THEN Skip([self EXCEPT !.current_state = o.state, !.context = o.context], o.calls)
        ELSE Continue(StopState, [self EXCEPT !.context = o.context], o.calls)
     : o \in PlayingState_update_game(self.current_state, act, self.context)}

\* PlayingPhase::handle_input
PlayingPhase_handle_input(self, event) ==
    PlayingState_handle_input(self.current_state, event)

\* need_input that asks for input in every sub-state.
PlayingPhase_need_input_always(self) == TRUE

\* PlayingPhase::need_input
PlayingPhase_need_input(self) == PlayingState_need_input(self.current_state)

\* update of Stop that skips instead of exiting.
StopState_update_skip(self, act) == {Skip(self, <<>>)}

\* StopState::update
StopState_update(self, act) == {ExitToStop(self, <<>>)}

\* StopState::handle_input
StopState_handle_input(self, event) == "None"

\* need_input of Stop that asks for input.
StopState_need_input_always(self) == TRUE

\* StopState::need_input
StopState_need_input(self) == FALSE

\* dyn State dispatch
State_update(self, act) ==
    CASE self.kind = "MenuState" -> MenuState_update(self, act)
      [] self.kind = "PlayingPhase" -> PlayingPhase_update(self, act)
      [] self.kind = "StopState" -> StopState_update(self, act)

State_handle_input(self, event) ==
    CASE self.kind = "MenuState" -> MenuState_handle_input(self, event)
      [] self.kind = "PlayingPhase" -> PlayingPhase_handle_input(self, event)
      [] self.kind = "StopState" -> StopState_handle_input(self, event)

State_need_input(self) ==
    CASE self.kind = "MenuState" -> MenuState_need_input(self)
      [] self.kind = "PlayingPhase" -> PlayingPhase_need_input(self)
      [] self.kind = "StopState" -> StopState_need_input(self)

(***************************************************************************)
(* The driver: Game::new and Game::run.                                    *)
(*   pc = "start"     run entered, nothing rendered yet                    *)
(*   pc = "loop"      top of 'main_loop                                    *)
(*   pc = "action"    action computed, before the Quit test                *)
(*   pc = "taken"     take_state done, before update                       *)
(*   pc = "quit"      loop left by Action::Quit                            *)
(*   pc = "exit"      loop left by ExitToStop                              *)
(*   pc = "panicked"  "Game state should always be set"                    *)
(***************************************************************************)
Catalogs == [1..Len(TileKinds) -> 0..MaxQty]

\* Game::new, with the catalog the provider will answer with.
Init ==
    /\ catalog \in Catalogs
    /\ events = <<>>
    /\ game_state = MenuState
    /\ current_state = NoState
    /\ action = "None"
    /\ pc = "start"
    /\ rendered = <<>>
    /\ updates = <<>>
    /\ calls = <<>>
    /\ CtxIdle
    /\ RenderIdle

\* rerender that hands nothing to the renderer.
rerender_silent(gs, next) ==
    IF gs = NoState
    THEN pc' = "panicked" /\ rendered' = rendered
    ELSE pc' = next /\ rendered' = rendered

\* Game::rerender on slot value gs : the next pc and render log.
rerender(gs, next) ==
    IF gs = NoState
    THEN pc' = "panicked" /\ rendered' = rendered
    ELSE pc' = next /\ rendered' = Append(rendered, View(gs))

\* Game::run, line 78 : the first rerender.
FirstRender ==
    /\ pc = "start"
    /\ rerender(game_state, "loop")
    /\ UNCHANGED <<catalog, events, game_state, current_state, action, updates, calls>>
    /\ UNCHANGED ctxVars
    /\ UNCHANGED renderVars

\* A read that takes two events and interprets the second.
ReadInput_twice ==
    /\ pc = "loop"
    /\ game_state # NoState
    /\ State_need_input(game_state)
    /\ Len(events) + 1 < MaxEvents
    /\ \E d \in InputEvent, e \in InputEvent :
          /\ events' = events \o <<d, e>>
          /\ action' = State_handle_input(game_state, e)
    /\ pc' = "action"
    /\ UNCHANGED <<catalog, game_state, current_state, rendered, updates, calls>>
    /\ UNCHANGED ctxVars
    /\ UNCHANGED renderVars

\* Game::run, lines 81-82 : the state needs input; one event is read and
\* interpreted by the state.
ReadInput ==
    /\ pc = "loop"
    /\ game_state # NoState
    /\ State_need_input(game_state)
    /\ Len(events) < MaxEvents
    /\ \E e \in InputEvent :
          /\ events' = Append(events, e)
          /\ action' = State_handle_input(game_state, e)
    /\ pc' = "action"
    /\ UNCHANGED <<catalog, game_state, current_state, rendered, updates, calls>>
    /\ UNCHANGED ctxVars
    /\ UNCHANGED renderVars

\* Game::run, lines 81-85 : the state needs no input; the action is None.
\* game_state() panics on a vacated slot.
NoInput ==
    /\ pc = "loop"
    /\ IF game_state = NoState
       THEN pc' = "panicked" /\ action' = action
       ELSE /\ ~State_need_input(game_state)
            /\ action' = "None"
            /\ pc' = "action"
    /\ UNCHANGED <<catalog, events, game_state, current_state, rendered, updates, calls>>
    /\ UNCHANGED ctxVars
    /\ UNCHANGED renderVars

\* A break on Quit that first takes the state out of the slot.
QuitBreak_takes_state ==
    /\ pc = "action"
    /\ action = "Quit"
    /\ pc' = "quit"
    /\ game_state' = NoState
    /\ UNCHANGED <<catalog, events, current_state, action, rendered, updates, calls>>
    /\ UNCHANGED ctxVars
    /\ UNCHANGED renderVars

\* Game::run, lines 87-89 : break on Action::Quit.
QuitBreak ==
    /\ pc = "action"
    /\ action = "Quit"
    /\ pc' = "quit"
    /\ UNCHANGED <<catalog, events, game_state, current_state, action, rendered,
                   updates, calls>>
    /\ UNCHANGED ctxVars
    /\ UNCHANGED renderVars

\* take_state that leaves the state in the slot.
TakeState_leaves_copy ==
    /\ pc = "action"
    /\ action # "Quit"
    /\ IF game_state = NoState
       THEN pc' = "panicked" /\ UNCHANGED <<game_state, current_state>>
       ELSE /\ current_state' = game_state
            /\ game_state' = game_state
            /\ pc' = "taken"
    /\ UNCHANGED <<catalog, events, action, rendered, updates, calls>>
    /\ UNCHANGED ctxVars
    /\ UNCHANGED renderVars

\* Game::take_state, called at line 91.
TakeState ==
    /\ pc = "action"
    /\ action # "Quit"
    /\ IF game_state = NoState
       THEN pc' = "panicked" /\ UNCHANGED <<game_state, current_state>>
       ELSE /\ current_state' = game_state
            /\ game_state' = NoState
            /\ pc' = "taken"
    /\ UNCHANGED <<catalog, events, action, rendered, updates, calls>>
    /\ UNCHANGED ctxVars
    /\ UNCHANGED renderVars

\* change_state that rerenders twice.
change_state_renders_twice(new_state) ==
    /\ game_state' = new_state
    /\ pc' = "loop"
    /\ rendered' = rendered \o <<View(new_state), View(new_state)>>

\* change_state that rerenders without installing the state.
change_state_not_installed(new_state) ==
    /\ game_state' = game_state
    /\ rerender(game_state, "loop")

\* Game::change_state : install the state, then rerender.
change_state(new_state) ==
    /\ game_state' = new_state
    /\ rerender(new_state, "loop")

\* Game::run, lines 93-97 : update the taken state and match on the result.
Update ==
    /\ pc = "taken"
    /\ \E o \in State_update(current_state, action) :
          /\ updates' = Append(updates,
                 [state |-> View(current_state), action |-> action, result |-> o.result])
          /\ calls' = calls \o o.calls
          /\ CASE o.result = "Continue" -> change_state(o.state)
               [] o.result = "Skip" -> change_state(o.self)
               [] o.result = "ExitToStop" ->
                    /\ pc' = "exit"
                    /\ UNCHANGED <<game_state, rendered>>
    /\ current_state' = NoState
    /\ UNCHANGED <<catalog, events, action>>
    /\ UNCHANGED ctxVars
    /\ UNCHANGED renderVars

Next == FirstRender \/ ReadInput \/ NoInput \/ QuitBreak \/ TakeState \/ Update

Spec == Init /\ [][Next]_vars

\* The driver with its scheduling: the thread runs, so a step that can be
\* taken is taken, and a blocking read returns while the input source has an
\* event left to deliver.
LiveSpec == Init /\ [][Next]_vars /\ WF_vars(Next)

(***************************************************************************)
(* A stand-alone GameContext, drawn from repeatedly (tests of context.rs). *)
(***************************************************************************)
RECURSIVE SeqsUpTo(_, _)
SeqsUpTo(S, n) ==
    IF n = 0 THEN {<<>>}
    ELSE LET shorter == SeqsUpTo(S, n - 1)
         IN  shorter \cup {Append(s, x) : s \in shorter, x \in S}

\* GameContext { available_tiles: vec![...] }
CtxInit ==
    /\ seeded \in SeqsUpTo(Tiles, MaxPool)
    /\ context = [available_tiles |-> seeded]
    /\ selected = <<>>
    /\ DriverIdle
    /\ RenderIdle

\* game_tiles.select_random_tile()
SelectRandomTile ==
    /\ Len(selected) < MaxCalls
    /\ \E o \in select_random_tile(context) :
          /\ context' = [available_tiles |-> o.available_tiles]
          /\ selected' = Append(selected, o.tile)
    /\ UNCHANGED seeded
    /\ UNCHANGED driverVars
    /\ UNCHANGED renderVars

CtxNext == SelectRandomTile

CtxSpec == CtxInit /\ [][CtxNext]_vars

(***************************************************************************)
(* The text renderer: Frame (frame.rs) and impl Renderable for Node        *)
(* (renderable/node.rs).  An operation on a Frame takes the frame and      *)
(* yields the frame as the operation leaves it; panicked is set by the     *)
(* write whose assertion fails, and no later step of the thread runs.      *)
(***************************************************************************)
\* pub const TILE_SIZE
TILE_SIZE == 5

\* char::len_utf8 : the number of bytes of a char in a str.
len_utf8(c) ==
    IF c < 128 THEN 1 ELSE IF c < 2048 THEN 2 ELSE IF c < 65536 THEN 3 ELSE 4

RECURSIVE str_len(_)
\* str::len : the length of a str in bytes.
str_len(str) ==
    IF str = <<>> THEN 0 ELSE len_utf8(Head(str)) + str_len(Tail(str))

\* usize::max
max(a, b) == IF a >= b THEN a ELSE b

\* set_cell that drops a write outside the frame instead of failing.
set_cell_no_assert(self, point, cell) ==
    IF point.y < self.size.height /\ point.x < self.size.width
    THEN [self EXCEPT !.cells[point.y][point.x] = cell,
                      !.writes = Append(@, point)]
    ELSE self

\* Frame::set_cell
set_cell(self, point, cell) ==
    IF point.y < self.size.height /\ point.x < self.size.width
    THEN [self EXCEPT !.cells[point.y][point.x] = cell,
                      !.writes = Append(@, point)]
    ELSE [self EXCEPT !.panicked = TRUE]

\* Frame::char
Frame_char(self, point, c, foreground_color, background_color) ==
    set_cell(self, point, Cell(c, background_color, foreground_color))

\* Frame::char_simple
char_simple(self, point, c) == Frame_char(self, point, c, "White", "Black")

RECURSIVE for_each_char_simple(_, _)
\* A loop of char_simple calls, made in the order of the sequence todo; it
\* ends where a call unwinds the thread.
for_each_char_simple(frame_, todo) ==
    IF frame_.panicked \/ todo = <<>>
    THEN frame_
    ELSE for_each_char_simple(char_simple(frame_, Head(todo).point, Head(todo).c),
                              Tail(todo))

\* The closure of the fold of Node::size, VerticalContainer arm, with the
\* terms of the sum exchanged.
vertical_fold_swapped(acc, s) ==
    Size_new(acc.width + s.width, max(acc.height, s.height))

\* The closure of the fold of Node::size, VerticalContainer arm.
vertical_fold(acc, s) ==
    Size_new(max(acc.width, s.width), acc.height + s.height)

\* The closure of the fold of Node::size, HorizontalContainer arm.
horizontal_fold(acc, s) ==
    Size_new(acc.width + s.width, max(acc.height, s.height))

RECURSIVE size(_), size_vertical(_, _), size_horizontal(_, _)
\* elems.iter().map(|e| e.size()).fold(acc, ..), VerticalContainer arm
size_vertical(elems, acc) ==
    IF elems = <<>>
    THEN acc
    ELSE size_vertical(Tail(elems), vertical_fold(acc, size(Head(elems))))

\* elems.iter().map(|e| e.size()).fold(acc, ..), HorizontalContainer arm
size_horizontal(elems, acc) ==
    IF elems = <<>>
    THEN acc
    ELSE size_horizontal(Tail(elems), horizontal_fold(acc, size(Head(elems))))

\* Node::size
size(self) ==
    CASE self.kind = "None" -> Size_new(0, 0)
      [] self.kind = "Char" -> Size_new(1, 1)
      [] self.kind = "Text" -> Size_new(str_len(self.str), 1)
      [] self.kind = "Tile" -> Size_new(TILE_SIZE, TILE_SIZE)
      [] self.kind = "VerticalContainer" -> size_vertical(self.elems, Size_new(0, 0))
      [] self.kind = "HorizontalContainer" -> size_horizontal(self.elems, Size_new(0, 0))
      [] self.kind = "Framed" -> Size_add(size(self.elems[1]), Size_new(2, 2))

\* NodeRenderer::render_char
render_char(frame_, point, char) == char_simple(frame_, point, char)

\* render_text that starts one column to the right.
render_text_shifted(frame_, point, str) ==
    for_each_char_simple(frame_,
        [i \in 1..Len(str) |->
            [point |-> Point_add(point, Point_new(i, 0)), c |-> str[i]]])

\* NodeRenderer::render_text : enumerate() counts the chars from 0.
render_text(frame_, point, str) ==
    for_each_char_simple(frame_,
        [i \in 1..Len(str) |->
            [point |-> Point_add(point, Point_new(i - 1, 0)), c |-> str[i]]])

\* NodeRenderer::render_tile : i runs outside, j inside, the cell is at
\* point + Point::new(i, j), the glyph is '.'.
render_tile(frame_, point, tile) ==
    for_each_char_simple(frame_,
        [k \in 1..(TILE_SIZE * TILE_SIZE) |->
            [point |-> Point_add(point, Point_new((k - 1) \div TILE_SIZE,
                                                  (k - 1) % TILE_SIZE)),
             c |-> 46]])

RECURSIVE render(_, _, _), render_framed(_, _, _)
RECURSIVE vertical_container(_, _, _), horizontal_container(_, _, _)
\* render_framed that paints the child one cell further in and down.
render_framed_padded(frame_, point, elem) ==
    LET inner_size == size(elem)
        outer_size == Size_add(inner_size, Size_new(2, 2))
        x0 == point.x
        y0 == point.y
        x1 == x0 + outer_size.width - 1
        y1 == y0 + outer_size.height - 1
        \* for x in (x0 + 1)..x1
        border(y) ==
            [i \in 1..(x1 - x0 - 1) |->
                [point |-> Point_new(x0 + i, y),
                 c |-> CharDrawing_into_char("Horizontal")]]
        top ==
            <<[point |-> Point_new(x0, y0), c |-> CharDrawing_into_char("CornerTopLeft")]>>
            \o border(y0)
            \o <<[point |-> Point_new(x1, y0),
                  c |-> CharDrawing_into_char("CornerTopRight")]>>
        \* for y in (y0 + 1)..y1 : the left cell, then the right cell
        middle ==
            [k \in 1..(2 * (y1 - y0 - 1)) |->
                [point |-> Point_new(IF k % 2 = 1 THEN x0 ELSE x1,
                                     y0 + 1 + ((k - 1) \div 2)),
                 c |-> CharDrawing_into_char("Vertical")]]
        bottom ==
            <<[point |-> Point_new(x0, y1),
               c |-> CharDrawing_into_char("CornerBottomLeft")]>>
            \o border(y1)
            \o <<[point |-> Point_new(x1, y1),
                  c |-> CharDrawing_into_char("CornerBottomRight")]>>
    IN render(elem, for_each_char_simple(frame_, top \o middle \o bottom),
              Point_add(point, Point_new(2, 2)))

\* render_framed that paints the child where the border should start, and
\* no border.
render_framed_flat(frame_, point, elem) == render(elem, frame_, point)

\* NodeRenderer::render_framed
render_framed(frame_, point, elem) ==
    LET inner_size == size(elem)
        outer_size == Size_add(inner_size, Size_new(2, 2))
        x0 == point.x
        y0 == point.y
        x1 == x0 + outer_size.width - 1
        y1 == y0 + outer_size.height - 1
        \* for x in (x0 + 1)..x1
        border(y) ==
            [i \in 1..(x1 - x0 - 1) |->
                [point |-> Point_new(x0 + i, y),
                 c |-> CharDrawing_into_char("Horizontal")]]
        top ==
            <<[point |-> Point_new(x0, y0), c |-> CharDrawing_into_char("CornerTopLeft")]>>
            \o border(y0)
            \o <<[point |-> Point_new(x1, y0),
                  c |-> CharDrawing_into_char("CornerTopRight")]>>
        \* for y in (y0 + 1)..y1 : the left cell, then the right cell
        middle ==
            [k \in 1..(2 * (y1 - y0 - 1)) |->
                [point |-> Point_new(IF k % 2 = 1 THEN x0 ELSE x1,
                                     y0 + 1 + ((k - 1) \div 2)),
                 c |-> CharDrawing_into_char("Vertical")]]
        bottom ==
            <<[point |-> Point_new(x0, y1),
               c |-> CharDrawing_into_char("CornerBottomLeft")]>>
            \o border(y1)
            \o <<[point |-> Point_new(x1, y1),
                  c |-> CharDrawing_into_char("CornerBottomRight")]>>
    IN render(elem, for_each_char_simple(frame_, top \o middle \o bottom),
              Point_add(point, Point_new(1, 1)))

\* vertical_container that moves down by the width of the child painted.
vertical_container_by_width(frame_, point, elems) ==
    IF frame_.panicked \/ elems = <<>>
    THEN frame_
    ELSE vertical_container(render(Head(elems), frame_, point),
                            Point_new(point.x, point.y + size(Head(elems)).width),
                            Tail(elems))

\* NodeRenderer::vertical_container : point.y of the recursive call is
\* current_y of the loop.
vertical_container(frame_, point, elems) ==
    IF frame_.panicked \/ elems = <<>>
    THEN frame_
    ELSE vertical_container(render(Head(elems), frame_, point),
                            Point_new(point.x, point.y + size(Head(elems)).height),
                            Tail(elems))

\* NodeRenderer::horizontal_container : point.x of the recursive call is
\* current_x of the loop.
horizontal_container(frame_, point, elems) ==
    IF frame_.panicked \/ elems = <<>>
    THEN frame_
    ELSE horizontal_container(render(Head(elems), frame_, point),
                              Point_new(point.x + size(Head(elems)).width, point.y),
                              Tail(elems))

\* Renderable::render for Node.  Nothing runs on a frame whose thread has
\* unwound.
render(self, frame_, point) ==
    IF frame_.panicked
    THEN frame_
    ELSE CASE self.kind = "None" -> frame_
           [] self.kind = "Char" -> render_char(frame_, point, self.char)
           [] self.kind = "Text" -> render_text(frame_, point, self.str)
           [] self.kind = "Tile" -> render_tile(frame_, point, self.tile)
           [] self.kind = "VerticalContainer" ->
                 vertical_container(frame_, point, self.elems)
           [] self.kind = "HorizontalContainer" ->
                 horizontal_container(frame_, point, self.elems)
           [] self.kind = "Framed" -> render_framed(frame_, point, self.elems[1])

\* impl From<Node> for Frame
Frame_from(value) == render(value, Frame_new(size(value)), Point_zero)

(***************************************************************************)
(* The screens: draw of the states.                                        *)
(***************************************************************************)
\* MenuState::draw : Node::Text("Press <Enter> to start playing")
MenuState_draw(self) ==
    Node_Text(
        <<80, 114, 101, 115, 115, 32, 60, 69, 110, 116, 101, 114, 62, 32,
          116, 111, 32, 115, 116, 97, 114, 116, 32, 112, 108, 97, 121, 105,
          110, 103>>)

\* StopState::draw : Node::Text("Fin du jeu")
StopState_draw(self) ==
    Node_Text(
        <<70, 105, 110, 32, 100, 117, 32, 106, 101, 117>>)

\* SelectTileState::draw
SelectTileState_draw(self) == Node_None

\* PlaceTileState::draw
PlaceTileState_draw(self) == Node_Tile(self.tile)

\* dyn PlayingState dispatch
PlayingState_draw(self) ==
    IF self.kind = "SelectTileState"
    THEN SelectTileState_draw(self)
    ELSE PlaceTileState_draw(self)

\* PlayingPhase::draw : the title is "Game Is Running".
PlayingPhase_draw(self) ==
    LET draw_result == PlayingState_draw(self.current_state)
    IN IF draw_result = Node_None
       THEN Node_None
       ELSE Node_VerticalContainer(<<
                Node_Text(
                    <<71, 97, 109, 101, 32, 73, 115, 32, 82, 117, 110, 110,
                      105, 110, 103>>),
                Node_Framed(PlayingState_draw(self.current_state)),
                Node_HorizontalContainer(<<
                    PlayingState_draw(self.current_state),
                    PlayingState_draw(self.current_state),
                    PlayingState_draw(self.current_state),
                    PlayingState_draw(self.current_state)>>)>>)

\* dyn State dispatch
State_draw(self) ==
    CASE self.kind = "MenuState" -> MenuState_draw(self)
      [] self.kind = "PlayingPhase" -> PlayingPhase_draw(self)
      [] self.kind = "StopState" -> StopState_draw(self)

\* The screens of the states a session passes through.
Screens ==
    {State_draw(st) :
        st \in {MenuState, StopState}
                 \cup {[kind |-> "PlayingPhase", current_state |-> sub,
                        context |-> NoContext]
                        : sub \in {SelectTileState}
                                    \cup {PlaceTileState_new(tile) : tile \in Tiles}}}

(***************************************************************************)
(* RenderSpec: a Node tree, measured and then converted to a Frame.        *)
(***************************************************************************)
\* The chars of the modelled Char nodes: 'X'.
Chars == {88}

\* The strs of the modelled Text nodes: "" and "Hé", an ASCII char
\* followed by a char of two bytes.
Strings == {<<>>, <<72, 233>>}

\* The trees of one node that has no child list.
Leaves ==
    {Node_None} \cup {Node_Char(c) : c \in Chars} \cup {Node_Text(str) : str \in Strings}
        \cup {Node_Tile(tile) : tile \in Tiles}

RECURSIVE TreesOfSize(_), ForestsOfSize(_)
\* The Node trees of exactly n nodes.
TreesOfSize(n) ==
    IF n = 1
    THEN Leaves \cup {Node_VerticalContainer(<<>>), Node_HorizontalContainer(<<>>)}
    ELSE {Node_Framed(t) : t \in TreesOfSize(n - 1)}
            \cup {Node_VerticalContainer(f) : f \in ForestsOfSize(n - 1)}
            \cup {Node_HorizontalContainer(f) : f \in ForestsOfSize(n - 1)}

\* The non-empty child lists of n nodes in all.
ForestsOfSize(n) ==
    {<<t>> : t \in TreesOfSize(n)}
        \cup UNION {{<<t>> \o f : t \in TreesOfSize(k), f \in ForestsOfSize(n - k)}
                     : k \in 1..(n - 1)}

Nodes == UNION {TreesOfSize(n) : n \in 1..MaxNodes}

RenderInit ==
    /\ DriverIdle
    /\ CtxIdle
    /\ node \in Nodes \cup Screens
    /\ rpc = "node"
    /\ measured = <<>>
    /\ frame = Frame_new(Size_new(0, 0))
    /\ cell_calls = <<>>

\* node.size()
Measure ==
    /\ rpc = "node"
    /\ Len(measured) < MaxMeasures
    /\ measured' = Append(measured, size(node))
    /\ UNCHANGED <<node, rpc, frame, cell_calls>>
    /\ UNCHANGED <<driverVars, ctxVars>>

\* Frame::from(node)
FromNode ==
    /\ rpc = "node"
    /\ rpc' = "frame"
    /\ frame' = Frame_from(node)
    /\ UNCHANGED <<node, measured, cell_calls>>
    /\ UNCHANGED <<driverVars, ctxVars>>

RenderNext == Measure \/ FromNode

RenderSpec == RenderInit /\ [][RenderNext]_vars

(***************************************************************************)
(* FrameSpec: a new Frame on which set_cell is called.                     *)
(***************************************************************************)
\* The cells written: 'X' in the colours of char_simple, '.' in others.
Cells == {Cell(88, "Black", "White"), Cell(46, "Red", "Blue")}

FrameInit ==
    /\ DriverIdle
    /\ CtxIdle
    /\ node = Node_None
    /\ rpc = "frame"
    /\ measured = <<>>
    /\ frame \in {Frame_new(Size_new(w, h)) : w \in 0..MaxDim, h \in 0..MaxDim}
    /\ cell_calls = <<>>

\* frame.set_cell(point, cell)
SetCell ==
    /\ ~frame.panicked
    /\ Len(cell_calls) < MaxWrites
    /\ \E x \in 0..MaxDim, y \in 0..MaxDim, cell \in Cells :
          /\ frame' = set_cell(frame, Point_new(x, y), cell)
          /\ cell_calls' = Append(cell_calls, [point |-> Point_new(x, y), cell |-> cell])
    /\ UNCHANGED <<node, rpc, measured>>
    /\ UNCHANGED <<driverVars, ctxVars>>

FrameNext == SetCell

FrameSpec == FrameInit /\ [][FrameNext]_vars

(***************************************************************************)
(* Helpers of the properties.                                              *)
(***************************************************************************)
Last(s) == s[Len(s)]

\* Number of occurrences of x in the sequence s.
Count(s, x) == Cardinality({i \in DOMAIN s : s[i] = x})

RECURSIVE SumTo(_, _)
SumTo(f, n) == IF n = 0 THEN 0 ELSE f[n] + SumTo(f, n - 1)

\* N : the number of tiles the provider seeds the pool with.
DeckSize == SumTo(catalog, Len(TileKinds))

AllEnter(evs) == \A i \in DOMAIN evs : evs[i] = "Enter"

IsSelectCall(c) == c.fn = "select_random_tile"

IsDraw(c) == c.fn = "select_random_tile" /\ c.tile # NoTile

\* The select_random_tile calls of the run that returned a tile.
Draws == SelectSeq(calls, IsDraw)

\* The renders at which PlaceTileState was installed after SelectTileState.
SelectToPlace ==
    {i \in 2..Len(rendered) :
        rendered[i - 1].sub = "SelectTileState" /\ rendered[i].sub = "PlaceTileState"}

MenuView == View(MenuState)

StopView == View(StopState)

PlaceView(tile) == View(PlayingPhase_new(PlaceTileState_new(tile), NoContext))

(***************************************************************************)
(* C1.  However the events fall, the session draws at most N tiles, N the  *)
(* size of the seeded pool; Stop is installed only after exactly N         *)
(* SelectTileState->PlaceTileState transitions (N draws), and when every   *)
(* event fed is Enter that takes exactly N + 1 events; the update of Stop  *)
(* yields exit and ends the loop.                                          *)
(***************************************************************************)
C1_StopAfterExactlyNDraws ==
    /\ Len(Draws) <= DeckSize
    /\ Cardinality(SelectToPlace) = Len(Draws)
    /\ (game_state = StopState \/ current_state = StopState \/ pc = "exit") =>
          /\ Len(Draws) = DeckSize
          /\ Cardinality(SelectToPlace) = DeckSize
          /\ AllEnter(events) => Len(events) = DeckSize + 1
    /\ pc = "exit" =>
          /\ Last(updates) = [state |-> StopView, action |-> "None", result |-> "ExitToStop"]
          /\ Last(rendered) = StopView

C1_Witness ==
    /\ pc = "exit"
    /\ DeckSize = 1
    /\ AllEnter(events)
    /\ Len(Draws) = 1
    /\ Len(events) = 2

(***************************************************************************)
(* C2.  Whenever the last event read is Quit, the action is Quit and the   *)
(* loop ends at once: the driver is at the Quit test or has left the loop  *)
(* by it, so no update follows the event.                                  *)
(***************************************************************************)
C2_QuitEventEndsLoop ==
    (events # <<>> /\ Last(events) = "Quit") =>
        (action = "Quit" /\ pc \in {"action", "quit"})

(***************************************************************************)
(* C3.  With a pool of two tiles and only Enter fed, the renders follow    *)
(* Menu, Select, Place(a), Select, Place(b), Select, Stop with a and b the *)
(* two tiles of the pool, at most three events are read, and the loop ends *)
(* by the update of Stop in the first iteration in which Stop is active,   *)
(* having read exactly three.                                              *)
(***************************************************************************)
C3_Kinds ==
    <<"MenuState", "SelectTileState", "PlaceTileState", "SelectTileState",
      "PlaceTileState", "SelectTileState", "StopState">>

C3_KindOf(v) == IF v.kind = "PlayingPhase" THEN v.sub ELSE v.kind

C3_TwoTileScenario ==
    (DeckSize = 2 /\ AllEnter(events)) =>
        /\ Len(events) <= 3
        /\ pc \notin {"quit", "panicked"}
        /\ Len(rendered) <= Len(C3_Kinds)
        /\ \A i \in DOMAIN rendered : C3_KindOf(rendered[i]) = C3_Kinds[i]
        /\ \A i \in DOMAIN rendered :
              (rendered[i].tile # NoTile) = (C3_Kinds[i] = "PlaceTileState")
        /\ Len(rendered) >= 5 =>
              \A i \in 1..Len(TileKinds) :
                  Count(<<rendered[3].tile, rendered[5].tile>>, TileKinds[i]) = catalog[i]
        /\ (Len(rendered) = 7) = (game_state = StopState \/ current_state = StopState
                                  \/ pc = "exit")
        /\ pc = "exit" =>
              /\ Len(events) = 3
              /\ Len(rendered) = 7
              /\ Count([i \in DOMAIN updates |-> updates[i].state], StopView) = 1

C3_Witness ==
    /\ pc = "exit"
    /\ catalog = [i \in 1..Len(TileKinds) |-> 1]
    /\ events = <<"Enter", "Enter", "Enter">>
    /\ rendered[3].tile # rendered[5].tile

(***************************************************************************)
(* C4.  On a context seeded with k tiles, the first k calls of             *)
(* select_random_tile each return a tile and shrink the pool by one, and   *)
(* every later call returns none and leaves the pool empty.                *)
(***************************************************************************)
C4_DrawsShrinkThenNone ==
    /\ \A i \in DOMAIN selected : (selected[i] # NoTile) = (i <= Len(seeded))
    /\ Len(context.available_tiles) =
          IF Len(selected) <= Len(seeded) THEN Len(seeded) - Len(selected) ELSE 0

C4_Witness ==
    /\ Len(seeded) = 2
    /\ Len(selected) = 4
    /\ selected[3] = NoTile
    /\ selected[4] = NoTile

(***************************************************************************)
(* C5.  A call of select_random_tile on a non-empty pool returns a tile of *)
(* the pool, and the pool it leaves is the pool before minus one           *)
(* occurrence of that tile; on an empty pool it returns none and the pool  *)
(* stays empty.                                                            *)
(***************************************************************************)
C5_Step ==
    (selected' # selected) =>
        LET before == context.available_tiles
            after  == context'.available_tiles
            tile   == Last(selected')
        IN  /\ selected' = Append(selected, tile)
            /\ IF before = <<>>
               THEN tile = NoTile /\ after = <<>>
               ELSE /\ tile \in {before[i] : i \in DOMAIN before}
                    /\ \A x \in Tiles :
                          Count(before, x) = Count(after, x) + (IF x = tile THEN 1 ELSE 0)

C5_PickWithoutReplacement == [][C5_Step]_vars

C5_Witness ==
    /\ Len(seeded) = 3
    /\ Count(seeded, TileKinds[1]) = 2
    /\ selected = <<TileKinds[2]>>
    /\ Count(context.available_tiles, TileKinds[1]) = 2

(***************************************************************************)
(* C6.  The driver never panics on an absent state: the slot is empty only *)
(* between take_state and the end of update (and after the loop has ended  *)
(* by exit); it is vacated only by take_state, which hands the state to    *)
(* the update that follows at once.                                        *)
(***************************************************************************)
C6_Step ==
    /\ pc' # "panicked"
    /\ game_state' = NoState => pc' \in {"taken", "exit"}
    /\ (game_state # NoState /\ game_state' = NoState) =>
          /\ pc = "action" /\ pc' = "taken"
          /\ current_state' = game_state
    /\ pc = "taken" => Len(updates') = Len(updates) + 1

C6_StateAlwaysSet == [][C6_Step]_vars

C6_Witness ==
    /\ pc = "taken"
    /\ game_state = NoState
    /\ current_state.kind = "PlayingPhase"
    /\ Len(updates) = 3

(***************************************************************************)
(* C7.  The update of Menu with StartGame installs a new PlayingPhase in   *)
(* SelectTileState whose pool holds every tile of the provider's catalog   *)
(* and from which nothing is drawn yet; with any other action it skips:    *)
(* Menu stays, and neither provider nor context is touched.                *)
(***************************************************************************)
C7_Step ==
    /\ (pc = "taken" /\ current_state = MenuState /\ action = "StartGame") =>
          /\ Last(updates').result = "Continue"
          /\ game_state'.kind = "PlayingPhase"
          /\ game_state'.current_state = SelectTileState
          /\ Len(game_state'.context.available_tiles) = DeckSize
          /\ \A i \in 1..Len(TileKinds) :
                Count(game_state'.context.available_tiles, TileKinds[i]) = catalog[i]
          /\ calls' = Append(calls, BuildCall)
    /\ (pc = "taken" /\ current_state = MenuState /\ action # "StartGame") =>
          /\ Last(updates').result = "Skip"
          /\ game_state' = MenuState
          /\ calls' = calls
    /\ \A a \in Action \ {"StartGame"} :
          MenuState_update(MenuState, a) = {Skip(MenuState, <<>>)}

C7_MenuUpdate == [][C7_Step]_vars

C7_Witness ==
    /\ game_state.kind = "PlayingPhase"
    /\ game_state.current_state = SelectTileState
    /\ Len(game_state.context.available_tiles) = 2
    /\ calls = <<BuildCall>>
    /\ Len(updates) = 2
    /\ updates[1].result = "Skip"

(***************************************************************************)
(* C8.  A step of SelectTileState makes one select_random_tile call and    *)
(* has one of two outcomes, whatever the action: on a non-empty pool it    *)
(* continues to PlaceTileState holding the tile the call returned, the     *)
(* pool one shorter; on an empty pool it exits to Stop and draws nothing.  *)
(***************************************************************************)
C8_Step ==
    (pc = "taken" /\ current_state.kind = "PlayingPhase"
        /\ current_state.current_state = SelectTileState) =>
        LET pool == current_state.context.available_tiles
        IN  /\ Len(calls') = Len(calls) + 1
            /\ IsSelectCall(Last(calls'))
            /\ IF pool # <<>>
               THEN /\ Last(calls').tile \in Tiles
                    /\ game_state'.kind = "PlayingPhase"
                    /\ game_state'.current_state = PlaceTileState_new(Last(calls').tile)
                    /\ Len(game_state'.context.available_tiles) = Len(pool) - 1
               ELSE /\ Last(calls').tile = NoTile
                    /\ game_state' = StopState
            /\ LET ctx      == current_state.context
                   outcomes == SelectTileState_update_game(SelectTileState, "None", ctx)
               IN  /\ \A a \in Action :
                          SelectTileState_update_game(SelectTileState, a, ctx) = outcomes
                   /\ \A o \in outcomes :
                          o.result = (IF pool # <<>> THEN "Continue" ELSE "ExitToStop")

C8_SelectStep == [][C8_Step]_vars

C8_Witness ==
    /\ pc = "loop"
    /\ game_state.kind = "PlayingPhase"
    /\ game_state.current_state.kind = "PlaceTileState"
    /\ game_state.current_state.tile = TileKinds[2]
    /\ Draws = <<[fn |-> "select_random_tile", tile |-> TileKinds[1]],
                 [fn |-> "select_random_tile", tile |-> TileKinds[2]]>>

(***************************************************************************)
(* C9.  While a tile is held, the Enter event is interpreted as Validate,  *)
(* and the update of PlaceTileState with Validate continues to             *)
(* SelectTileState in the same PlayingPhase, the pool untouched.           *)
(***************************************************************************)
C9_Holding(st) ==
    st.kind = "PlayingPhase" /\ st.current_state.kind = "PlaceTileState"

C9_Step ==
    /\ (pc = "loop" /\ C9_Holding(game_state) /\ events' = Append(events, "Enter")) =>
          action' = "Validate"
    /\ (pc = "taken" /\ C9_Holding(current_state) /\ action = "Validate") =>
          /\ Last(updates').result = "Skip"
          /\ game_state' = [current_state EXCEPT !.current_state = SelectTileState]
          /\ calls' = calls

C9_ValidateContinues == [][C9_Step]_vars

C9_Witness ==
    /\ pc = "loop"
    /\ updates # <<>>
    /\ Last(updates) = [state |-> PlaceView(TileKinds[1]), action |-> "Validate",
                        result |-> "Skip"]
    /\ game_state.current_state = SelectTileState
    /\ Len(game_state.context.available_tiles) = 1

(***************************************************************************)
(* C10.  Stop needs no input; its update returns exit for every action     *)
(* and leaves Stop as it was, so any number of calls return exit; in the   *)
(* driver the update of Stop is the last update, Stop the last state       *)
(* rendered, and no event is read while Stop is active.                    *)
(***************************************************************************)
C10_StopTerminal ==
    /\ ~StopState_need_input(StopState)
    /\ \A a \in Action :
          \A o \in State_update(StopState, a) :
              o.result = "ExitToStop" /\ o.self = StopState /\ o.calls = <<>>
    /\ \A i \in DOMAIN updates :
          updates[i].state = StopView =>
              (i = Len(updates) /\ updates[i].result = "ExitToStop" /\ pc = "exit")
    /\ \A i \in DOMAIN rendered : rendered[i] = StopView => i = Len(rendered)
    /\ (game_state = StopState \/ current_state = StopState) =>
          (action = "None" /\ pc \in {"loop", "action", "taken"})
    /\ pc = "exit" => game_state = NoState

C10_Witness ==
    /\ pc = "exit"
    /\ Last(updates).state = StopView
    /\ Last(updates).result = "ExitToStop"
    /\ Len(events) = 2

(***************************************************************************)
(* C11.  A Quit action ends the loop with no update: the step that reads   *)
(* the event and the break leave the slot (state, sub-state, held tile,    *)
(* pool), the render log, the update log and the call log as they were,    *)
(* and after the break nothing changes any more.                          *)
(***************************************************************************)
C11_Step ==
    /\ (pc = "loop" /\ action' = "Quit") =>
          /\ pc' = "action"
          /\ UNCHANGED <<game_state, current_state, rendered, updates, calls>>
    /\ (pc = "action" /\ action = "Quit") =>
          /\ pc' = "quit"
          /\ game_state # NoState
          /\ UNCHANGED <<game_state, current_state, events, rendered, updates, calls>>
    /\ pc = "quit" => UNCHANGED vars

C11_QuitChangesNothing == [][C11_Step]_vars

C11_Witness ==
    /\ pc = "quit"
    /\ events = <<"Up", "Quit">>
    /\ game_state = MenuState
    /\ Len(updates) = 1
    /\ Len(rendered) = 2

(***************************************************************************)
(* C12.  While a session lives, its pool never grows: a step shortens it   *)
(* by one when it is the update of SelectTileState on a non-empty pool and *)
(* leaves its length alone otherwise, and the tiles drawn so far plus the  *)
(* tiles left always number the seeded deck.                               *)
(***************************************************************************)
\* The PlayingPhase the driver holds, in the slot or taken out of it.
C12_InSession ==
    game_state.kind = "PlayingPhase" \/ current_state.kind = "PlayingPhase"

C12_Session ==
    IF game_state.kind = "PlayingPhase" THEN game_state ELSE current_state

C12_PoolLen == Len(C12_Session.context.available_tiles)

C12_Step ==
    /\ C12_InSession' => Len(Draws') + C12_PoolLen' = DeckSize
    /\ (C12_InSession /\ C12_InSession') =>
          IF /\ pc = "taken"
             /\ current_state.current_state = SelectTileState
             /\ C12_PoolLen > 0
          THEN C12_PoolLen' = C12_PoolLen - 1 /\ Len(Draws') = Len(Draws) + 1
          ELSE C12_PoolLen' = C12_PoolLen /\ Draws' = Draws

C12_PoolOnlyShrinks == [][C12_Step]_vars

C12_Witness ==
    /\ pc = "loop"
    /\ game_state.kind = "PlayingPhase"
    /\ game_state.current_state = SelectTileState
    /\ DeckSize = 2
    /\ Len(Draws) = 1
    /\ C12_PoolLen = 1
    /\ Len(events) = 2

(***************************************************************************)
(* C13.  The loop terminates: it ends by Quit or by the exit of Stop,      *)
(* unless the input source has delivered its MaxEvents events and the      *)
(* active state waits for another.  It does not spin on states that need   *)
(* no input: no three updates in a row are of such states, a session reads *)
(* at most one event per tile of its deck, and the loop ends by exit only  *)
(* with the deck drawn out.                                                *)
(***************************************************************************)
C13_Ended == pc \in {"quit", "exit"}

\* The driver blocks in read_input_event and the source delivers no more.
C13_AwaitsInput ==
    /\ pc = "loop"
    /\ game_state # NoState
    /\ State_need_input(game_state)
    /\ Len(events) = MaxEvents

C13_NoInputUpdate(u) ==
    u.state.kind = "StopState" \/ u.state.sub = "SelectTileState"

C13_Bounded ==
    /\ pc # "panicked"
    /\ \A i \in 1..(Len(updates) - 2) :
          ~(/\ C13_NoInputUpdate(updates[i])
            /\ C13_NoInputUpdate(updates[i + 1])
            /\ C13_NoInputUpdate(updates[i + 2]))
    /\ Cardinality({i \in DOMAIN updates : updates[i].state.sub = "PlaceTileState"})
          <= DeckSize
    /\ pc = "exit" => Len(Draws) = DeckSize
    /\ pc = "quit" => action = "Quit"

C13_Terminates == []C13_Bounded /\ <>(C13_Ended \/ C13_AwaitsInput)

C13_Witness ==
    /\ pc = "exit"
    /\ DeckSize = 0
    /\ events = <<"Left", "Enter">>
    /\ Len(updates) = 4
    /\ C13_NoInputUpdate(updates[3])
    /\ C13_NoInputUpdate(updates[4])

(***************************************************************************)
(* C19.  An update of a PlayingPhase is one step of its sub-state, mapped: *)
(* the sub-state's continue(s) leaves the same PlayingPhase in the slot,   *)
(* holding s and the context as the step left it, with outer result Skip;  *)
(* the sub-state's exit puts Stop in the slot with outer result Continue.  *)
(* The outer result is never ExitToStop, and the step makes at most one    *)
(* context call.                                                           *)
(***************************************************************************)
C19_Step ==
    (pc = "taken" /\ current_state.kind = "PlayingPhase") =>
        LET nested == PlayingState_update_game(current_state.current_state, action,
                                               current_state.context)
            r == Last(updates').result
        IN /\ Len(updates') = Len(updates) + 1
           /\ pc' = "loop"
           /\ r \in {"Skip", "Continue"}
           /\ Len(calls') <= Len(calls) + 1
           /\ r = "Skip" =>
                 \E o \in nested :
                    /\ o.result = "Continue"
                    /\ calls' = calls \o o.calls
                    /\ game_state' = [kind |-> "PlayingPhase",
                                      current_state |-> o.state,
                                      context |-> o.context]
           /\ r = "Continue" =>
                 /\ game_state' = StopState
                 /\ \E o \in nested : o.result = "ExitToStop" /\ calls' = calls \o o.calls
           /\ \A o \in PlayingPhase_update(current_state, action) :
                 /\ o.result # "ExitToStop"
                 /\ o.result = "Continue" => o.state = StopState
                 /\ o.result = "Skip" => o.self.kind = "PlayingPhase"

C19_OneNestedStepMapped == [][C19_Step]_vars

\* Both mappings have happened: a draw was installed in the phase, and the
\* draw on the empty pool put Stop in the slot.
C19_Witness ==
    /\ pc = "loop"
    /\ game_state = StopState
    /\ Len(updates) = 4
    /\ updates[2].state.sub = "SelectTileState" /\ updates[2].result = "Skip"
    /\ updates[3].state.sub = "PlaceTileState" /\ updates[3].result = "Skip"
    /\ updates[4].state.sub = "SelectTileState" /\ updates[4].result = "Continue"

(***************************************************************************)
(* C20.  With a tile held, every event other than Enter, the Quit key      *)
(* included, is read as Action::None, and the update that follows moves to *)
(* SelectTileState whatever the action: the held tile is dropped, the pool *)
(* is as it was and no context call is made.                               *)
(***************************************************************************)
C20_Held(st) == st # NoState /\ st.kind = "PlayingPhase"
                   /\ st.current_state.kind = "PlaceTileState"

C20_Step ==
    /\ (pc = "loop" /\ C20_Held(game_state) /\ pc' = "action") =>
          /\ Len(events') = Len(events) + 1
          /\ Last(events') # "Enter" => action' = "None"
          /\ action' # "Quit"
    /\ (pc = "taken" /\ C20_Held(current_state)) =>
          /\ game_state' = [current_state EXCEPT !.current_state = SelectTileState]
          /\ game_state'.context.available_tiles = current_state.context.available_tiles
          /\ calls' = calls
          /\ Last(updates').result = "Skip"
          /\ \A a \in Action :
                PlaceTileState_update_game(current_state.current_state, a,
                                           current_state.context)
                   = {PlayingContinue(SelectTileState, current_state.context, <<>>)}

C14_NeverOutside ==
    rpc = "frame" => /\ ~frame.panicked
                     /\ frame.size = size(node)
                     /\ DOMAIN frame.cells = 0..(frame.size.height - 1)
                     /\ \A y \in DOMAIN frame.cells :
                           DOMAIN frame.cells[y] = 0..(frame.size.width - 1)

\* Framed(None) : a frame of 2 x 2, its four cells the four corners.
C14_Witness ==
    /\ rpc = "frame"
    /\ node = Node_Framed(Node_None)
    /\ ~frame.panicked
    /\ frame.size = Size_new(2, 2)
    /\ frame.cells[0][0].symbol = CharDrawing_into_char("CornerTopLeft")
    /\ frame.cells[0][1].symbol = CharDrawing_into_char("CornerTopRight")
    /\ frame.cells[1][0].symbol = CharDrawing_into_char("CornerBottomLeft")
    /\ frame.cells[1][1].symbol = CharDrawing_into_char("CornerBottomRight")

(***************************************************************************)
(* C15.  size() of a VerticalContainer is (largest child width, sum of the *)
(* child heights), of a HorizontalContainer (sum of the child widths,      *)
(* largest child height), and (0,0) for both when the child list is empty. *)
(***************************************************************************)
C15_Largest(S) == IF S = {} THEN 0 ELSE CHOOSE m \in S : \A x \in S : x <= m

C15_Widths == [i \in 1..Len(node.elems) |-> size(node.elems[i]).width]

C15_Heights == [i \in 1..Len(node.elems) |-> size(node.elems[i]).height]

C15_Range(f) == {f[i] : i \in DOMAIN f}

C15_ContainerSize ==
    \A i \in DOMAIN measured :
       /\ node.kind = "VerticalContainer" =>
             /\ measured[i].width = C15_Largest(C15_Range(C15_Widths))
             /\ measured[i].height = SumTo(C15_Heights, Len(node.elems))
       /\ node.kind = "HorizontalContainer" =>
             /\ measured[i].width = SumTo(C15_Widths, Len(node.elems))
             /\ measured[i].height = C15_Largest(C15_Range(C15_Heights))
       /\ (node.kind \in {"VerticalContainer", "HorizontalContainer"}
             /\ node.elems = <<>>) => measured[i] = Size_new(0, 0)

\* A tile above a text of three bytes: 5 wide, 6 high.
C15_Witness ==
    /\ measured # <<>>
    /\ node.kind = "VerticalContainer"
    /\ Len(node.elems) = 2
    /\ node.elems[1].kind = "Tile"
    /\ node.elems[2] = Node_Text(<<72, 233>>)
    /\ measured[1] = Size_new(5, 6)

(***************************************************************************)
(* C16.  size() of Framed(n) is size() of n plus 2 in width and in height: *)
(* (2,2) for Framed(None), and 4 more than the inner node for a Framed of  *)
(* a Framed.                                                               *)
(***************************************************************************)
C16_FramedSize ==
    \A i \in DOMAIN measured :
       node.kind = "Framed" =>
          LET n == node.elems[1]
          IN /\ measured[i].width = size(n).width + 2
             /\ measured[i].height = size(n).height + 2
             /\ n = Node_None => measured[i] = Size_new(2, 2)
             /\ n.kind = "Framed" =>
                   /\ measured[i].width = size(n.elems[1]).width + 4
                   /\ measured[i].height = size(n.elems[1]).height + 4

C16_Witness ==
    /\ measured # <<>>
    /\ node = Node_Framed(Node_Framed(Node_Char(88)))
    /\ measured[1] = Size_new(5, 5)

(***************************************************************************)
(* C17.  The size of a leaf is fixed by its variant: (0,0) for None, (1,1) *)
(* for Char, (number of chars of s, 1) for Text(s), (5,5) for a Tile of    *)
(* any kind; and size() called again on the same tree returns the same.    *)
(***************************************************************************)
C17_LeafSizes ==
    \A i \in DOMAIN measured :
       /\ node.kind = "None" => measured[i] = Size_new(0, 0)
       /\ node.kind = "Char" => measured[i] = Size_new(1, 1)
       /\ node.kind = "Text" => measured[i] = Size_new(Len(node.str), 1)
       /\ node.kind = "Tile" => measured[i] = Size_new(5, 5)
       /\ measured[i] = measured[1]

(***************************************************************************)
(* C18.  set_cell at a point with x >= width or y >= height fails its      *)
(* assertion and leaves every cell as it was; at a point inside it puts    *)
(* the given cell, symbol and colours, at cells[y][x] and leaves every     *)
(* other cell as it was.                                                   *)
(***************************************************************************)
C18_Step ==
    Len(cell_calls') = Len(cell_calls) + 1 =>
       LET call == Last(cell_calls')
           p == call.point
       IN /\ frame'.size = frame.size
          /\ IF p.x >= frame.size.width \/ p.y >= frame.size.height
             THEN /\ frame'.panicked
                  /\ frame'.cells = frame.cells
             ELSE /\ ~frame'.panicked
                  /\ frame'.cells[p.y][p.x] = call.cell
                  /\ \A y \in 0..(frame.size.height - 1), x \in 0..(frame.size.width - 1) :
                        (x # p.x \/ y # p.y) => frame'.cells[y][x] = frame.cells[y][x]

C18_SetCellChecked == [][C18_Step]_vars

\* A write inside a frame of 2 x 1, then a write at x = width.
C18_Witness ==
    /\ Len(cell_calls) = 2
    /\ frame.size = Size_new(2, 1)
    /\ cell_calls[1] = [point |-> Point_new(1, 0), cell |-> Cell(46, "Red", "Blue")]
    /\ cell_calls[2].point = Point_new(2, 0)
    /\ frame.panicked
    /\ frame.cells[0][1] = Cell(46, "Red", "Blue")
    /\ frame.cells[0][0] = Cell(32, "Black", "White")

(***************************************************************************)
(* C21.  An iteration whose state needs input reads one event, the next    *)
(* of the source, and its action is that event as the state interprets it; *)
(* an iteration whose state needs none (SelectTileState, Stop) reads none  *)
(* and its action is None.  No other step reads, so the events read are as *)
(* many as the iterations of states that need input, and none is read once *)
(* the loop has ended.                                                     *)
(***************************************************************************)
C21_NeedsInput(v) == v.kind = "MenuState" \/ v.sub = "PlaceTileState"

C21_Step ==
    /\ (pc = "loop" /\ pc' = "action") =>
          IF State_need_input(game_state)
          THEN /\ Len(events') = Len(events) + 1
               /\ SubSeq(events', 1, Len(events)) = events
               /\ action' = State_handle_input(game_state, Last(events'))
          ELSE /\ events' = events
               /\ action' = "None"
               /\ \/ game_state = StopState
                  \/ game_state.current_state = SelectTileState
    /\ ~(pc = "loop" /\ pc' = "action") => events' = events
    /\ pc' \in {"loop", "exit"} =>
          Len(events') = Cardinality({i \in DOMAIN updates' :
                                         C21_NeedsInput(updates'[i].state)})
    /\ pc' = "quit" =>
          Len(events') = 1 + Cardinality({i \in DOMAIN updates' :
                                             C21_NeedsInput(updates'[i].state)})

C21_OneReadPerInputIteration == [][C21_Step]_vars

\* Read in Menu, none in SelectTileState, read in PlaceTileState, none in
\* SelectTileState and Stop.
C21_Witness ==
    /\ pc = "exit"
    /\ events = <<"Enter", "Down">>
    /\ Len(updates) = 5
    /\ updates[1].action = "StartGame"
    /\ updates[2].action = "None" /\ updates[2].state.sub = "SelectTileState"
    /\ updates[3].action = "None" /\ updates[3].state.sub = "PlaceTileState"
    /\ updates[5].action = "None" /\ updates[5].state.kind = "StopState"

(***************************************************************************)
(* C22.  The state of the slot is rendered once before the first           *)
(* iteration, and once after each update that returns Continue or Skip:    *)
(* the state just installed, before the loop is back at its top.  Nothing  *)
(* is rendered after an update that returns ExitToStop, after a Quit, or   *)
(* by any other step.                                                      *)
(***************************************************************************)
C22_Step ==
    /\ pc = "start" => /\ rendered = <<>>
                       /\ rendered' = <<View(game_state)>>
                       /\ pc' = "loop"
    /\ pc = "taken" =>
          IF Last(updates').result \in {"Continue", "Skip"}
          THEN /\ rendered' = Append(rendered, View(game_state'))
               /\ game_state' # NoState
               /\ pc' = "loop"
          ELSE /\ rendered' = rendered
               /\ pc' = "exit"
    /\ pc \in {"loop", "action"} => rendered' = rendered
    /\ Len(rendered') = 1 + Cardinality({i \in DOMAIN updates' :
                                            updates'[i].result # "ExitToStop"})

C22_RenderPerInstall == [][C22_Step]_vars

\* Renders: Menu at start, Menu after a skip, the phase after the start of
\* the session, Stop; none after the exit.
C22_Witness ==
    /\ pc = "exit"
    /\ Len(updates) = 4
    /\ updates[1].result = "Skip"
    /\ updates[2].result = "Continue"
    /\ updates[4].result = "ExitToStop"
    /\ Len(rendered) = 4
    /\ rendered[1] = MenuView /\ rendered[2] = MenuView
    /\ rendered[3].kind = "PlayingPhase"
    /\ rendered[4] = StopView

(***************************************************************************)
(* C23.  The top-level phases installed in a run follow Menu, PlayingPhase,*)
(* Stop in that order, each repeated by its skips: an update of Menu       *)
(* installs Menu or PlayingPhase, an update of PlayingPhase installs       *)
(* PlayingPhase or Stop, an update of Stop installs nothing.               *)
(***************************************************************************)
C23_Rank(kind) ==
    CASE kind = "MenuState" -> 1
      [] kind = "PlayingPhase" -> 2
      [] kind = "StopState" -> 3

C23_Step ==
    /\ pc = "taken" =>
          CASE current_state.kind = "MenuState" ->
                  game_state'.kind \in {"MenuState", "PlayingPhase"}
            [] current_state.kind = "PlayingPhase" ->
                  game_state'.kind \in {"PlayingPhase", "StopState"}
            [] current_state.kind = "StopState" ->
                  game_state' = NoState /\ pc' = "exit"
    /\ \A i \in 1..(Len(rendered') - 1) :
          /\ C23_Rank(rendered'[i].kind) <= C23_Rank(rendered'[i + 1].kind)
          /\ C23_Rank(rendered'[i + 1].kind) <= C23_Rank(rendered'[i].kind) + 1
    /\ rendered' # <<>> => rendered'[1].kind = "MenuState"

C23_PhasesOnlyForward == [][C23_Step]_vars

C23_Witness ==
    /\ pc = "exit"
    /\ Len(rendered) = 6
    /\ rendered[1].kind = "MenuState"
    /\ rendered[2].kind = "MenuState"
    /\ rendered[3].kind = "PlayingPhase"
    /\ rendered[4].kind = "PlayingPhase"
    /\ rendered[5].kind = "PlayingPhase"
    /\ rendered[6].kind = "StopState"

(***************************************************************************)
(* C24.  build_base_game is called once in a run that starts a session, by *)
(* the update of Menu that installs the PlayingPhase, and not at all in a  *)
(* run that leaves Menu by Quit; no update of PlayingPhase or Stop calls   *)
(* it.                                                                     *)
(***************************************************************************)
C24_Started ==
    \E i \in DOMAIN updates :
       updates[i].state.kind = "MenuState" /\ updates[i].result = "Continue"

C24_Step ==
    /\ Count(calls', BuildCall) = IF C24_Started' THEN 1 ELSE 0
    /\ Count(calls', BuildCall) > Count(calls, BuildCall) =>
          /\ pc = "taken"
          /\ current_state = MenuState
          /\ action = "StartGame"
          /\ game_state'.kind = "PlayingPhase"
          /\ calls' = Append(calls, BuildCall)
    /\ (pc' = "quit" /\ ~C24_Started') => calls' = <<>>

C24_ProviderCalledOnce == [][C24_Step]_vars

\* A session played to its end: one provider call, the first of the calls.
C24_Witness ==
    /\ pc = "exit"
    /\ DeckSize = 1
    /\ Len(calls) = 3
    /\ calls[1] = BuildCall
    /\ Count(calls, BuildCall) = 1

(***************************************************************************)
(* C25.  need_input follows the active state: Menu needs input, Stop does  *)
(* not, PlayingPhase does exactly when its sub-state is PlaceTileState;    *)
(* need_input and handle_input of PlayingPhase are those of its sub-state. *)
(***************************************************************************)
C25_Holds(st) ==
    CASE st.kind = "MenuState" -> State_need_input(st)
      [] st.kind = "StopState" -> ~State_need_input(st)
      [] st.kind = "PlayingPhase" ->
            /\ State_need_input(st) <=> st.current_state.kind = "PlaceTileState"
            /\ st.current_state.kind \in {"SelectTileState", "PlaceTileState"}
            /\ PlayingPhase_need_input(st) = PlayingState_need_input(st.current_state)
            /\ \A e \in InputEvent :
                  PlayingPhase_handle_input(st, e)
                     = PlayingState_handle_input(st.current_state, e)
      [] OTHER -> st = NoState

C25_NeedInputByState ==
    /\ C25_Holds(game_state)
    /\ C25_Holds(current_state)

C25_Witness ==
    /\ pc = "loop"
    /\ game_state.kind = "PlayingPhase"
    /\ game_state.current_state.kind = "PlaceTileState"
    /\ State_need_input(game_state)
    /\ Len(rendered) = 3
    /\ rendered[2].sub = "SelectTileState"

(***************************************************************************)
(* C29.  A session that runs out of tiles installs and renders Stop once,  *)
(* by the update of SelectTileState that finds the pool empty; the next    *)
(* iteration reads no event, updates Stop with Action::None and ends the   *)
(* loop.  Every event read was read for an update of Menu or of            *)
(* PlaceTileState, so none is read after the last of those.                *)
(***************************************************************************)
C29_InputUpdates == {i \in DOMAIN updates : C21_NeedsInput(updates[i].state)}

C29_StopInstalled ==
    /\ Count(rendered, StopView) = 1
    /\ Last(rendered) = StopView
    /\ Len(Draws) = DeckSize
    /\ Len(events) = Cardinality(C29_InputUpdates)

C29_StopOnceThenExit ==
    /\ Count(rendered, StopView) <= 1
    /\ (pc = "loop" /\ game_state = StopState) =>
          /\ C29_StopInstalled
          /\ Last(updates).state.sub = "SelectTileState"
          /\ Last(updates).result = "Continue"
    /\ (pc = "action" /\ game_state = StopState) =>
          C29_StopInstalled /\ action = "None"
    /\ (pc = "taken" /\ current_state = StopState) =>
          C29_StopInstalled /\ action = "None"
    /\ pc = "exit" =>
          /\ C29_StopInstalled
          /\ Len(updates) >= 3
          /\ updates[Len(updates)].state.kind = "StopState"
          /\ updates[Len(updates)].action = "None"
          /\ updates[Len(updates)].result = "ExitToStop"
          /\ updates[Len(updates) - 1].state.sub = "SelectTileState"
          /\ updates[Len(updates) - 1].result = "Continue"
          /\ (Len(updates) - 2) \in C29_InputUpdates

\* One tile, confirmed by Enter: five updates, two events, Stop rendered
\* last and once.
C29_Witness ==
    /\ pc = "exit"
    /\ DeckSize = 1
    /\ events = <<"Enter", "Enter">>
    /\ Len(updates) = 5
    /\ updates[3].state.sub = "PlaceTileState" /\ updates[3].action = "Validate"
    /\ Len(rendered) = 5
    /\ rendered[5] = StopView

C26_IsContainer(n) == n.kind \in {"VerticalContainer", "HorizontalContainer"}

\* The frame the conversion starts from.
C26_Blank == Frame_new(size(node))

C26_Offset(n, origin, i) ==
    IF n.kind = "VerticalContainer"
    THEN Point_new(origin.x,
                   origin.y + SumTo([k \in 1..Len(n.elems) |-> size(n.elems[k]).height],
                                    i - 1))
    ELSE Point_new(origin.x + SumTo([k \in 1..Len(n.elems) |-> size(n.elems[k]).width],
                                    i - 1),
                   origin.y)

\* The points child i of n paints when painted alone at its place.
C26_Painted(n, origin, i) ==
    LET alone == render(n.elems[i], C26_Blank, C26_Offset(n, origin, i))
    IN {alone.writes[k] : k \in DOMAIN alone.writes}

RECURSIVE C26_InTurn(_, _, _)
\* The frame after children 1..i of n were painted, each at its place.
C26_InTurn(n, origin, i) ==
    IF i = 0
    THEN C26_Blank
    ELSE render(n.elems[i], C26_InTurn(n, origin, i - 1), C26_Offset(n, origin, i))

C26_Holds(n, origin) ==
    LET all == render(n, C26_Blank, origin)
    IN /\ ~all.panicked
       /\ all = C26_InTurn(n, origin, Len(n.elems))
       /\ \A i \in 1..Len(n.elems) :
             LET at == C26_Offset(n, origin, i)
                 sz == size(n.elems[i])
             IN \A p \in C26_Painted(n, origin, i) :
                   /\ at.x <= p.x /\ p.x < at.x + sz.width
                   /\ at.y <= p.y /\ p.y < at.y + sz.height
       /\ \A i \in 1..Len(n.elems), j \in 1..Len(n.elems) :
             i < j => C26_Painted(n, origin, i) \cap C26_Painted(n, origin, j) = {}

\* The tree converted, at (0,0), and its children where it paints them.
C26_Placed ==
    {[n |-> node, at |-> Point_zero]}
       \cup {[n |-> node.elems[i],
              at |-> IF node.kind = "Framed"
                     THEN Point_new(1, 1)
                     ELSE C26_Offset(node, Point_zero, i)] : i \in 1..Len(node.elems)}

C26_ChildrenAtOffsets ==
    rpc = "frame" =>
       /\ frame = render(node, C26_Blank, Point_zero)
       /\ \A pl \in C26_Placed : C26_IsContainer(pl.n) => C26_Holds(pl.n, pl.at)

\* The screen of a PlayingPhase that holds a tile: the title, the framed
\* tile below it at y = 1, the row of four tiles below that at y = 8, its
\* second tile at x = 5.
C26_Witness ==
    /\ rpc = "frame"
    /\ node.kind = "VerticalContainer"
    /\ Len(node.elems) = 3
    /\ node.elems[3].kind = "HorizontalContainer"
    /\ frame.size = Size_new(20, 13)
    /\ frame.cells[0][0].symbol = 71
    /\ frame.cells[1][0].symbol = CharDrawing_into_char("CornerTopLeft")
    /\ frame.cells[8][5].symbol = 46
    /\ frame.cells[12][19].symbol = 46
    /\ Len(frame.writes) = 15 + 24 + 25 + 100

(***************************************************************************)
(* C27.  Framed(child) painted at p, with (w,h) the size of the child plus *)
(* (2,2): the four corner glyphs, each different, are at (p.x, p.y),       *)
(* (p.x+w-1, p.y), (p.x, p.y+h-1), (p.x+w-1, p.y+h-1); the horizontal      *)
(* glyph fills the rest of the top and bottom rows, the vertical glyph the *)
(* rest of the left and right columns; then the child is painted at        *)
(* p+(1,1), all its cells strictly inside the border, none on a border     *)
(* cell.  Checked for the tree converted and for its children.             *)
(***************************************************************************)
C27_Glyph(name) == Cell(CharDrawing_into_char(name), "Black", "White")

\* The cells of the border of a rectangle of w x h at p.
C27_Border(p, w, h) ==
    {Point_new(x, y) : x \in {p.x, p.x + w - 1}, y \in p.y..(p.y + h - 1)}
       \cup {Point_new(x, y) : x \in p.x..(p.x + w - 1), y \in {p.y, p.y + h - 1}}

C27_Holds(n, p) ==
    LET child == n.elems[1]
        w == size(child).width + 2
        h == size(child).height + 2
        all == render(n, C26_Blank, p)
        inner == render(child, C26_Blank, Point_add(p, Point_new(1, 1)))
        ring == 2 * w + 2 * (h - 2)
    IN /\ ~all.panicked
       /\ all.cells[p.y][p.x] = C27_Glyph("CornerTopLeft")
       /\ all.cells[p.y][p.x + w - 1] = C27_Glyph("CornerTopRight")
       /\ all.cells[p.y + h - 1][p.x] = C27_Glyph("CornerBottomLeft")
       /\ all.cells[p.y + h - 1][p.x + w - 1] = C27_Glyph("CornerBottomRight")
       /\ Cardinality({CharDrawing_into_char(c) :
                          c \in {"CornerTopLeft", "CornerTopRight", "CornerBottomLeft",
                                 "CornerBottomRight", "Horizontal", "Vertical"}}) = 6
       /\ \A x \in (p.x + 1)..(p.x + w - 2) :
             /\ all.cells[p.y][x] = C27_Glyph("Horizontal")
             /\ all.cells[p.y + h - 1][x] = C27_Glyph("Horizontal")
       /\ \A y \in (p.y + 1)..(p.y + h - 2) :
             /\ all.cells[y][p.x] = C27_Glyph("Vertical")
             /\ all.cells[y][p.x + w - 1] = C27_Glyph("Vertical")
       \* the border is painted first, each of its cells once, then the child
       /\ Len(all.writes) = ring + Len(inner.writes)
       /\ {all.writes[k] : k \in 1..ring} = C27_Border(p, w, h)
       /\ Cardinality(C27_Border(p, w, h)) = ring
       /\ SubSeq(all.writes, ring + 1, Len(all.writes)) = inner.writes
       /\ \A k \in DOMAIN inner.writes :
             /\ p.x < inner.writes[k].x /\ inner.writes[k].x < p.x + w - 1
             /\ p.y < inner.writes[k].y /\ inner.writes[k].y < p.y + h - 1
             /\ all.cells[inner.writes[k].y][inner.writes[k].x]
                   = inner.cells[inner.writes[k].y][inner.writes[k].x]

C28_ChildWrites ==
    render(node.elems[1], C26_Blank, Point_new(1, 1)).writes

C28_Inside ==
    {Point_new(x, y) : x \in 1..(frame.size.width - 2), y \in 1..(frame.size.height - 2)}

====
